---- MODULE Spec2Model ----
(***************************************************************************)
(* Trading journal: the valuation engine (calculations.py), the ledger     *)
(* store (database.py) and the Streamlit handlers that drive them          *)
(* (app.py).                                                               *)
(*                                                                         *)
(* Numbers.  The program computes in IEEE doubles; the model computes the  *)
(* same expressions in exact rationals <<n, d>> (d > 0, lowest terms), so  *)
(* every equality below is an equality of real numbers.  None (Python's    *)
(* None, SQL NULL) is the pair <<0, 0>>.                                   *)
(*                                                                         *)
(* Time.  A datetime is an integer number of half days since               *)
(* 2024-01-01 00:00; a date chosen in a form is a midnight (an even        *)
(* number), the clock is any number.                                       *)
(***************************************************************************)
EXTENDS Integers, Sequences, FiniteSets, TLC

VARIABLES
    now,        \* the clock read by datetime.now(...)
    store,      \* table trading_log: id -> row
    df,         \* per browser session: the snapshot its forms were rendered from
    session,    \* per browser session: the SQLAlchemy session of the handler it is inside
    ops,        \* how many handlers have ended
    last,       \* the last handler that ended, with what it read
    trade,      \* SpecMetrics: the TradingLog object handed to calculate_metrics
    arg,        \* SpecMetrics: the trade as it was when the last call began
    asof,       \* SpecMetrics: the clock reading of the last call
    raised,     \* SpecMetrics: the exception the last call ended in ("" = returned)
    calls,      \* SpecMetrics: how many times calculate_metrics has run on trade
    ledger,     \* SpecLedger: the DataFrame handed to the aggregators
    report,     \* SpecLedger: the aggregator last called and what it returned
    balance,    \* portfolio_settings 'saldo_iniziale', as get_initial_balance() returns it
    session_state   \* per browser session: st.session_state ('authenticated', 'role')

vars == <<now, store, df, session, ops, last, trade, arg, asof, raised, calls, ledger, report,
          balance, session_state>>

appVars == <<store, df, session, ops, last, session_state>>

metricVars == <<trade, arg, asof, raised, calls>>

ledgerVars == <<ledger, report, balance>>

---------------------------------------------------------------------------
(* Exact arithmetic standing for the float operators of the source.        *)

Abs(x) == IF x < 0 THEN -x ELSE x

Max(a, b) == IF a >= b THEN a ELSE b

RECURSIVE GCD(_, _)
GCD(a, b) == IF b = 0 THEN a ELSE GCD(b, a % b)

None == <<0, 0>>

IsNone(x) == x = None

\* n/d in lowest terms with a positive denominator
Rat(n, d) ==
    LET s == IF d < 0 THEN -1 ELSE 1
        g == GCD(Abs(n), Abs(d))
    IN  <<(s * n) \div g, (s * d) \div g>>

I(n) == <<n, 1>>

RAdd(a, b) ==
    LET g == GCD(a[2], b[2])
    IN  Rat(a[1] * (b[2] \div g) + b[1] * (a[2] \div g), (a[2] \div g) * b[2])

RNeg(a) == <<-a[1], a[2]>>

RSub(a, b) == RAdd(a, RNeg(b))

RMul(a, b) ==
    LET g1 == GCD(Abs(a[1]), b[2])
        g2 == GCD(Abs(b[1]), a[2])
    IN  Rat((a[1] \div g1) * (b[1] \div g2), (a[2] \div g2) * (b[2] \div g1))

\* a / b for b # 0 (Python raises ZeroDivisionError on b = 0: see DivRaises)
RDiv(a, b) ==
    IF b[1] > 0 THEN RMul(a, <<b[2], b[1]>>) ELSE RMul(a, <<-b[2], -b[1]>>)

DivRaises(b) == b[1] = 0

RPos(a) == a[1] > 0

RNegative(a) == a[1] < 0

RLe(a, b) == ~RPos(RSub(a, b))

RLt(a, b) == RNegative(RSub(a, b))

\* Python truthiness of an optional float: None and 0.0 are false
Truthy(x) == ~IsNone(x) /\ x[1] # 0

\* timedelta.days of (later - earlier): whole days, rounded down
TimedeltaDays(later, earlier) == (later - earlier) \div 2

DayTicks(d) == 2 * d

---------------------------------------------------------------------------
(* calculations.py: calculate_metrics.  A trade is a record with the       *)
(* columns of TradingLog that the handlers and the engine read or write    *)
(* (the text columns strumento, isin, categoria, valuta, note take part in *)
(* no computation and are left out).                                       *)

\* variant: the entry price whatever the average cost
pmc_entry_only(t) == t.prezzo_entrata

\* line 14: pmc = trade.prezzo_medio_carico if trade.prezzo_medio_carico
\* else trade.prezzo_entrata
pmc(t) ==
    IF Truthy(t.prezzo_medio_carico) THEN t.prezzo_medio_carico ELSE t.prezzo_entrata

\* line 17
investito_lordo(t) == RMul(t.quantita, pmc(t))

\* lines 20-26: date_end is computed (line 21) and never read; end_date is
\* now_utc for every trade, open or closed
days_held(t, now_utc) ==
    LET start_date == t.data_operazione
        end_date == now_utc
    IN  Max(1, TimedeltaDays(end_date, start_date))

\* lines 29-30
maint_cost(lordo, costo_mantenimento_annuo, days) ==
    LET ann_rate == RDiv(costo_mantenimento_annuo, I(100))
    IN  RMul(RDiv(RMul(lordo, ann_rate), I(365)), I(days))

\* variant: the holding cost left out, as get_calculated_values (line 200) does
investito_netto_legacy(lordo, costi_apertura, maint) == RAdd(lordo, costi_apertura)

\* line 33
investito_netto(lordo, costi_apertura, maint) == RAdd(RAdd(lordo, costi_apertura), maint)

\* variant: the exit price tested for truth, as the reference price is
prezzo_uscita_or(t) ==
    IF t.stato # "APERTA" /\ ~Truthy(t.prezzo_uscita) THEN pmc(t) ELSE t.prezzo_uscita

\* lines 35, 47-49: the else branch, taken by every trade whose stato is
\* not 'APERTA', stores pmc as the exit price when there is none
prezzo_uscita(t) ==
    IF t.stato # "APERTA" /\ IsNone(t.prezzo_uscita) THEN pmc(t) ELSE t.prezzo_uscita

\* variant: the closing cost not taken off the proceeds
valore_attuale_gross(t) ==
    IF t.stato = "APERTA"
    THEN RMul(t.quantita, IF Truthy(t.prezzo_attuale) THEN t.prezzo_attuale ELSE pmc(t))
    ELSE RMul(t.quantita, prezzo_uscita(t))

\* lines 36-37 and 51
valore_attuale(t) ==
    IF t.stato = "APERTA"
    THEN LET prezzo_rif == IF Truthy(t.prezzo_attuale) THEN t.prezzo_attuale ELSE pmc(t)
         IN  RMul(t.quantita, prezzo_rif)
    ELSE RSub(RMul(t.quantita, prezzo_uscita(t)), t.costi_chiusura)

\* variant: the rate applied to every result, gain or loss
tassazione_flat(pl) == RMul(pl, <<26, 100>>)

\* lines 40-43 and 54-57: 26% of a gain, nothing on a loss
tassazione(pl) == IF RPos(pl) THEN RMul(pl, <<26, 100>>) ELSE I(0)

\* (net_profit / investito_netto) * 100: the value, or the exception of a
\* division by zero
Quot(profit, invested) ==
    IF DivRaises(invested)
    THEN [exc |-> "ZeroDivisionError", val |-> None]
    ELSE [exc |-> "", val |-> RMul(RDiv(profit, invested), I(100))]

\* variant: the division without its guard
rendimento_percentuale_unguarded(profit, invested) == Quot(profit, invested)

\* lines 61-64
rendimento_percentuale(profit, invested) ==
    IF RPos(invested) THEN Quot(profit, invested) ELSE [exc |-> "", val |-> I(0)]

\* calculate_metrics(trade): the trade as the call leaves it (it is modified
\* in place) and the exception the call ends in, "" when it returns
calculate_metrics_run(t, now_utc) ==
    LET lordo == investito_lordo(t)
        maint == maint_cost(lordo, t.costo_mantenimento_annuo, days_held(t, now_utc))
        netto == investito_netto(lordo, t.costi_apertura, maint)
        valore == valore_attuale(t)
        pl == RSub(valore, netto)
        tax == tassazione(pl)
        profit == RSub(pl, tax)
        r == rendimento_percentuale(profit, netto)
    IN  [exc |-> r.exc,
         trade |-> [t EXCEPT
                      !.investito_lordo = lordo,
                      !.investito_netto = netto,
                      !.prezzo_uscita = prezzo_uscita(t),
                      !.valore_attuale = valore,
                      !.plus_minus = pl,
                      !.tassazione = tax,
                      !.net_profit = profit,
                      !.rendimento_percentuale =
                          IF r.exc = "" THEN r.val ELSE t.rendimento_percentuale]]

calculate_metrics(t, now_utc) == calculate_metrics_run(t, now_utc).trade

\* TradingLog(**kw): every column not given is None until the INSERT
\* applies the column defaults
TradingLog(kw) ==
    [data_operazione |-> kw.data_operazione,
     stato |-> kw.stato,
     quantita |-> kw.quantita,
     prezzo_entrata |-> kw.prezzo_entrata,
     prezzo_medio_carico |-> kw.prezzo_medio_carico,
     prezzo_uscita |-> kw.prezzo_uscita,
     prezzo_attuale |-> kw.prezzo_attuale,
     costi_apertura |-> kw.costi_apertura,
     costi_chiusura |-> kw.costi_chiusura,
     costo_mantenimento_annuo |-> kw.costo_mantenimento_annuo,
     investito_lordo |-> None,
     investito_netto |-> None,
     valore_attuale |-> None,
     plus_minus |-> None,
     tassazione |-> None,
     net_profit |-> None,
     rendimento_percentuale |-> None]

---------------------------------------------------------------------------
(* calculations.py: the aggregators.  The rows of a DataFrame are the      *)
(* sequence of the rows of trading_log as read_sql returns them, each a    *)
(* record of its columns.  The DataFrame objects of a call are a sequence  *)
(* mem of such rows; an object is referred to by its place in mem, and the *)
(* frame the caller passed is the first.  A variable is [mem, ref]: the    *)
(* objects there are and the one the variable refers to.  A statement that *)
(* builds a frame appends an object; v[col] = series changes the object    *)
(* v refers to.                                                            *)

\* df, the parameter, in a call on frame: the caller's object
Caller(frame) == [mem |-> <<frame>>, ref |-> 1]

\* df.copy(): a new object with the same rows
DataFrame_copy(v) ==
    [mem |-> Append(v.mem, v.mem[v.ref]), ref |-> Len(v.mem) + 1]

\* the rows of the object v refers to
Rows_of(v) == v.mem[v.ref]

\* v[col] = series: the object gets the column, or its column is replaced
DataFrame_setitem(v, col, series) ==
    [v EXCEPT !.mem[v.ref] = [i \in 1..Len(@) |-> (col :> series[i]) @@ @[i]]]

RECURSIVE Sum(_)
\* Series.sum()
Sum(series) == IF series = <<>> THEN I(0) ELSE RAdd(Head(series), Sum(Tail(series)))

RECURSIVE Where(_, _)
\* the rows of df[mask]: those whose index is in mask, in order
Where(frame, mask) ==
    IF frame = <<>> THEN <<>>
    ELSE LET rest == Where(Tail(frame), {i - 1 : i \in mask \ {1}})
         IN  IF 1 \in mask THEN <<Head(frame)>> \o rest ELSE rest

\* df[mask]: a new object with the rows selected
DataFrame_getitem(v, mask) ==
    [mem |-> Append(v.mem, Where(v.mem[v.ref], mask)), ref |-> Len(v.mem) + 1]

\* df['plus_minus'] and the like
ColPlusMinus(frame) == [i \in 1..Len(frame) |-> frame[i].plus_minus]

ColTassazione(frame) == [i \in 1..Len(frame) |-> frame[i].tassazione]

ColInvestitoNetto(frame) == [i \in 1..Len(frame) |-> frame[i].investito_netto]

ColNetProfit(frame) == [i \in 1..Len(frame) |-> frame[i].net_profit]

\* variant: the filter on stato forgotten
closed_df_all(frame) == frame

\* line 73, the one statement of get_tax_wallet_summary that builds a
\* frame (lines 83-89 select from closed_df and assign to no frame): the
\* objects of the call, and which of them closed_df is
tax_wallet_frames(frame) ==
    DataFrame_getitem(Caller(frame), {i \in 1..Len(frame) : frame[i].stato = "CHIUSA"})

\* line 73: df[df['stato'] == 'CHIUSA']
closed_df(frame) == Rows_of(tax_wallet_frames(frame))

\* df, as the caller finds it after get_tax_wallet_summary(df)
df_after_tax_wallet(frame) == tax_wallet_frames(frame).mem[1]

\* lines 68-97
get_tax_wallet_summary(frame) ==
    LET closed == closed_df(frame)
        pl == ColPlusMinus(closed)
        minusvalenze ==
            LET total == Sum(ColPlusMinus(Where(closed, {i \in 1..Len(closed) : RNegative(pl[i])})))
            IN  IF RNegative(total) THEN RNeg(total) ELSE total
        plusvalenze == Sum(ColPlusMinus(Where(closed, {i \in 1..Len(closed) : RPos(pl[i])})))
    IN  IF closed = <<>>
        THEN [realized_pl |-> I(0), taxes_paid |-> I(0), plusvalenze |-> I(0),
              minusvalenze |-> I(0), bilancio_fiscale |-> I(0)]
        ELSE [realized_pl |-> Sum(pl),
              taxes_paid |-> Sum(ColTassazione(closed)),
              plusvalenze |-> plusvalenze,
              minusvalenze |-> minusvalenze,
              bilancio_fiscale |-> RSub(plusvalenze, minusvalenze)]

\* profit / invested * 100 on numpy floats: a zero divisor gives nan or inf
\* (None here), not an exception
NumpyPercent(profit, invested) ==
    IF invested[1] = 0 THEN None ELSE RMul(RDiv(profit, invested), I(100))

\* lines 110-114
calc_period_return(df_period) ==
    IF df_period = <<>> THEN I(0)
    ELSE LET invested == Sum(ColInvestitoNetto(df_period))
             profit == Sum(ColNetProfit(df_period))
         IN  IF RPos(invested) THEN NumpyPercent(profit, invested) ELSE I(0)

\* the first days of 2024, 2025, 2026, 2027 (days since 2024-01-01)
NewYears == {0, 366, 731, 1096}

\* line 121: datetime(now.year, 1, 1)
year_start(t) ==
    DayTicks(CHOOSE y \in NewYears :
                 DayTicks(y) <= t /\ \A z \in NewYears : DayTicks(z) <= t => z <= y)

\* the rows of df[df['data_operazione'] >= since], which
\* calc_period_return reads
Since(frame, since) ==
    Where(frame, {i \in 1..Len(frame) : frame[i].data_operazione >= since})

\* pd.to_datetime of a value of the column data_operazione: a timestamp
\* (what read_sql makes of the DateTime column, a number of half days here)
\* is returned as it is, a date written as text (<<"text", timestamp>>) is
\* parsed
to_datetime(v) == IF v \in Int THEN v ELSE v[2]

\* lines 103-106: the objects of a call of
\* get_portfolio_performance_metrics when it returns at line 104 or gets to
\* line 107; line 106 assigns the converted column to the caller's object
performance_frames(frame) ==
    IF frame = <<>> THEN Caller(frame)
    ELSE LET line106(v) ==
                 DataFrame_setitem(v, "data_operazione",
                     [i \in 1..Len(Rows_of(v)) |-> to_datetime(Rows_of(v)[i].data_operazione)])
         IN  line106(Caller(frame))

\* df, as the caller finds it after get_portfolio_performance_metrics(df)
df_after_performance(frame) == performance_frames(frame).mem[1]

\* lines 99-136; {} for an empty frame
get_portfolio_performance_metrics(frame, t) ==
    IF frame = <<>> THEN <<>>
    ELSE LET windows(rows) ==
                 [Monthly |-> calc_period_return(Since(rows, t - DayTicks(30))),
                  YTD |-> calc_period_return(Since(rows, year_start(t))),
                  LTM |-> calc_period_return(Since(rows, t - DayTicks(365))),
                  Inception |-> calc_period_return(rows)]
         IN  windows(df_after_performance(frame))

\* numpy's float results that are not numbers
NaN == None

NegInf == <<-1, 0>>

PosInf == <<1, 0>>

\* np.isnan: nan only; an infinity is a number
IsNaN(x) == x = NaN

\* a / b on float64 columns: a zero divisor gives nan, inf or -inf, never an
\* exception; inf / inf is nan, x / inf is 0
FloatDiv(a, b) ==
    IF IsNaN(a) \/ IsNaN(b) THEN NaN
    ELSE IF a \in {PosInf, NegInf}
         THEN IF b \in {PosInf, NegInf} THEN NaN ELSE IF b[1] >= 0 THEN a ELSE RNeg(a)
    ELSE IF b \in {PosInf, NegInf} THEN I(0)
    ELSE IF b[1] # 0 THEN RDiv(a, b)
    ELSE IF a[1] = 0 THEN NaN ELSE IF a[1] > 0 THEN PosInf ELSE NegInf

\* a <= b on floats: False when either side is nan; -inf is below and inf
\* above every number, and each equals itself
FloatLe(a, b) ==
    /\ ~IsNaN(a) /\ ~IsNaN(b)
    /\ \/ a = NegInf
       \/ b = PosInf
       \/ a \notin {PosInf, NegInf} /\ b \notin {PosInf, NegInf} /\ RLe(a, b)

\* x * 100 on floats
Times100(x) == IF x[2] = 0 THEN x ELSE RMul(x, I(100))

\* c * sqrt(v) for v >= 0, kept as the pair: the value of an expression with
\* one square root in it.  Zero has one form; nan stays nan.
Root(c, v) ==
    IF IsNaN(c) \/ IsNaN(v) THEN [coef |-> NaN, rad |-> NaN]
    ELSE IF c[1] = 0 \/ v[1] = 0 THEN [coef |-> I(0), rad |-> I(1)]
    ELSE [coef |-> c, rad |-> v]

\* 0.0
Zero == Root(I(0), I(1))

\* 2^e for an exponent beyond the fractions above (a third component tells
\* it from them)
TwoTo(e) == <<1, 2, e>>

\* x / r for a number x and a root r > 0
OverRoot(x, r) ==
    IF Len(r.rad) = 3 THEN [coef |-> RDiv(x, r.coef), rad |-> TwoTo(-r.rad[3])]
    ELSE Root(RDiv(x, RMul(r.coef, r.rad)), r.rad)

RECURSIVE sort_values(_)
\* df.sort_values('data_operazione'): rows in date order; numpy sorts a
\* frame of fewer than 16 rows by insertion, which leaves rows of one date
\* in the order they came in
sort_values(frame) ==
    IF frame = <<>> THEN <<>>
    ELSE LET rest == sort_values(Tail(frame))
             h == Head(frame)
             k == Cardinality({i \in 1..Len(rest) :
                                  rest[i].data_operazione < h.data_operazione})
         IN  SubSeq(rest, 1, k) \o <<h>> \o SubSeq(rest, k + 1, Len(rest))

\* line 150: df_sorted['rendimento_percentuale'].fillna(0) / 100
returns_of(df_sorted) ==
    [i \in 1..Len(df_sorted) |->
        RDiv(IF IsNaN(df_sorted[i].rendimento_percentuale) THEN I(0)
             ELSE df_sorted[i].rendimento_percentuale, I(100))]

\* np.mean
np_mean(series) == FloatDiv(Sum(series), I(Len(series)))

\* The series of one repeated value whose float64 mean is not that value,
\* as <<value, length>>: (-0.2 + -0.2 + -0.2) / 3 is -0.20000000000000004,
\* the sum being rounded after each addition, and six or seven values of
\* -0.2 give -0.19999999999999998.  Two, four and five values of -0.2, and
\* two to seven values of 0.0 or 0.296, give the value itself.
RoundedMeans == {<<<<-1, 5>>, 3>>, <<<<-1, 5>>, 6>>, <<<<-1, 5>>, 7>>}

\* np.std: the root of the mean squared deviation (ddof = 0).  Where the
\* mean of equal values is rounded, each value is 2^-55 off it and the
\* result is 2^-55 (2.7755575615628914e-17), not 0.
np_std(series) ==
    LET m == np_mean(series)
        dev2 == [i \in 1..Len(series) |->
                    RMul(RSub(series[i], m), RSub(series[i], m))]
    IN  IF /\ series # <<>>
           /\ \A i \in 1..Len(series) : series[i] = series[1]
           /\ <<series[1], Len(series)>> \in RoundedMeans
        THEN [coef |-> I(1), rad |-> TwoTo(-110)]
        ELSE Root(I(1), np_mean(dev2))

\* variant: the standard deviation as Series.std() takes it (ddof = 1),
\* without the test on the length
std_dev_sample(returns) ==
    LET m == np_mean(returns)
        dev2 == [i \in 1..Len(returns) |->
                    RMul(RSub(returns[i], m), RSub(returns[i], m))]
    IN  Root(I(1), FloatDiv(Sum(dev2), I(Len(returns) - 1)))

\* line 153
std_dev(returns) == IF Len(returns) > 1 THEN np_std(returns) ELSE Zero

\* lines 160-161
downside_std(returns) ==
    LET downside_returns ==
            Where(returns, {i \in 1..Len(returns) : RNegative(returns[i])})
    IN  IF Len(downside_returns) > 1 THEN np_std(downside_returns) ELSE Zero

\* lines 157 and 162: mean_ret / std if std > 0 else 0.0
RatioOrZero(mean_ret, std) ==
    IF ~IsNaN(std.coef) /\ RPos(std.coef) THEN OverRoot(mean_ret, std) ELSE Zero

RECURSIVE Ascending(_)
\* the values in ascending order
Ascending(series) ==
    IF series = <<>> THEN <<>>
    ELSE LET rest == Ascending(Tail(series))
             h == Head(series)
             k == Cardinality({i \in 1..Len(rest) : RLt(rest[i], h)})
         IN  SubSeq(rest, 1, k) \o <<h>> \o SubSeq(rest, k + 1, Len(rest))

\* np.percentile(returns, 5): linear interpolation at (n - 1) * 5 / 100
percentile5(series) ==
    LET a == Ascending(series)
        pos == (Len(series) - 1) * 5
        lo == (pos \div 100) + 1
        hi == IF lo < Len(series) THEN lo + 1 ELSE lo
    IN  RAdd(a[lo], RMul(RSub(a[hi], a[lo]), Rat(pos % 100, 100)))

\* lines 165-168
var_95(returns) == IF Len(returns) >= 5 THEN percentile5(returns) ELSE I(0)

\* Series.cumsum()
cumsum(series) == [i \in 1..Len(series) |-> Sum(SubSeq(series, 1, i))]

\* Series.cummax()
cummax(series) ==
    [i \in 1..Len(series) |->
        CHOOSE m \in {series[j] : j \in 1..i} : \A j \in 1..i : RLe(series[j], m)]

RECURSIVE SeriesMin(_)
\* Series.min(): the least value that is not nan (an infinity counts), nan
\* when there is none
SeriesMin(series) ==
    IF series = <<>> THEN NaN
    ELSE LET m == SeriesMin(Tail(series))
             h == Head(series)
         IN  IF IsNaN(h) THEN m
             ELSE IF IsNaN(m) THEN h
             ELSE IF FloatLe(h, m) THEN h ELSE m

\* variant: the sort done on the object itself (inplace=True)
DataFrame_sort_values_inplace(v) ==
    [v EXCEPT !.mem[v.ref] = sort_values(@)]

\* df.sort_values('data_operazione'): a new object with the rows sorted
DataFrame_sort_values(v) ==
    [mem |-> Append(v.mem, sort_values(v.mem[v.ref])), ref |-> Len(v.mem) + 1]

\* lines 149-174 of a call of get_risk_analysis on a frame that is not
\* empty: df_sorted and the objects of the call when it gets to line 176.
\* Line 149 sorts into a new object and copies that; lines 171-174 assign
\* four columns to df_sorted
risk_frames(frame, initial_balance) ==
    LET line149(v) == DataFrame_copy(DataFrame_sort_values(v))
        line171(v) == DataFrame_setitem(v, "cum_profit", cumsum(ColNetProfit(Rows_of(v))))
        line172(v) ==
            DataFrame_setitem(v, "equity",
                [i \in 1..Len(frame) |-> RAdd(initial_balance, Rows_of(v)[i].cum_profit)])
        line173(v) ==
            DataFrame_setitem(v, "peak",
                cummax([i \in 1..Len(frame) |-> Rows_of(v)[i].equity]))
        line174(v) ==
            DataFrame_setitem(v, "drawdown",
                [i \in 1..Len(frame) |->
                    FloatDiv(RSub(Rows_of(v)[i].equity, Rows_of(v)[i].peak),
                             Rows_of(v)[i].peak)])
    IN  line174(line173(line172(line171(line149(Caller(frame))))))

\* df, as the caller finds it after get_risk_analysis(df, initial_balance)
df_after_risk(frame, initial_balance) ==
    IF frame = <<>> THEN frame ELSE risk_frames(frame, initial_balance).mem[1]

\* lines 138-187
get_risk_analysis(frame, initial_balance) ==
    IF frame = <<>>
    THEN [StdDev |-> Zero, Sharpe |-> Zero, Sortino |-> Zero, VaR |-> I(0),
          MaxDrawdown |-> I(0), CurrentDrawdown |-> I(0)]
    ELSE LET lines150to187(df_sorted) ==
                 LET returns == returns_of(df_sorted)
                     sd == std_dev(returns)
                     mean_ret == np_mean(returns)
                     drawdown == [i \in 1..Len(df_sorted) |-> df_sorted[i].drawdown]
                 IN  [StdDev |-> Root(Times100(sd.coef), sd.rad),
                      Sharpe |-> RatioOrZero(mean_ret, sd),
                      Sortino |-> RatioOrZero(mean_ret, downside_std(returns)),
                      VaR |-> Times100(var_95(returns)),
                      MaxDrawdown |-> Times100(SeriesMin(drawdown)),
                      CurrentDrawdown |-> Times100(drawdown[Len(drawdown)]),
                      EquityCurve |->
                          [i \in 1..Len(df_sorted) |->
                              [data_operazione |-> df_sorted[i].data_operazione,
                               equity |-> df_sorted[i].equity,
                               drawdown |-> df_sorted[i].drawdown]]]
         IN  lines150to187(Rows_of(risk_frames(frame, initial_balance)))

NoReport == [op |-> "", exc |-> "", res |-> <<>>]

---------------------------------------------------------------------------
(* database.py and app.py: the ledger store and the handlers.              *)
(*                                                                         *)
(* Each browser session runs the script top to bottom on every event: the  *)
(* login gate (lines 44-46), the sidebar buttons (lines 113-138), then     *)
(* df = get_trades_df() (line 141), the dashboard tab (lines 148-261), the *)
(* operations tab (lines 263-344) and the insert tab (lines 347-384).  An  *)
(* exception that nothing catches ends the run where it is raised: the     *)
(* forms below that line are neither rendered nor handled.                 *)
(*                                                                         *)
(* A button can be pressed only on a page that shows it, and the page of a *)
(* session is what its last run rendered.  The sidebar is rendered before  *)
(* line 141.  The forms of the operations tab ("Salva Dati Base",          *)
(* "Conferma Vendita", "CONFERMA ELIMINAZIONE", lines 265-335) are         *)
(* rendered when df is not empty, and the insert form when the run gets to *)
(* line 347.  With df not empty the dashboard tab calls                    *)
(* get_risk_analysis(df) (line 156) and the run ends there, so no run      *)
(* renders the forms of the operations tab (OperationsTabNeverRendered     *)
(* below) and the model has no action for them; the insert form is on the  *)
(* page of a session whose last run found the table empty.                 *)
(*                                                                         *)
(* A handler opens its own SQLAlchemy session; what it queries and what it *)
(* commits are separate calls on the database, and a commit of another     *)
(* session can fall between them.                                          *)

Sessions == {1, 2}

\* the rows the table may hold (the INSERT of a further row is not taken)
MaxId == 3

\* the handlers that may end (in a commit or in an exception) in one run of
\* the model
MaxOps == 3

EmptyStore == [i \in {} |-> None]

\* a DateTime attribute that was not given (Python's None)
NoDate == -1

NoTrade ==
    [TradingLog([data_operazione |-> 0, stato |-> "", quantita |-> None,
                 prezzo_entrata |-> None, prezzo_medio_carico |-> None,
                 prezzo_uscita |-> None, prezzo_attuale |-> None,
                 costi_apertura |-> None, costi_chiusura |-> None,
                 costo_mantenimento_annuo |-> None]) EXCEPT !.stato = ""]

\* last: the handler that ended last, the row it acted on, the row it
\* added, the table as its commit found it, for a price refresh the quotes
\* it got, and the exception the run of the script ended in ("" = none)
NoOp == [op |-> "", sess |-> 0, id |-> 0, new_id |-> 0, prev |-> EmptyStore,
         quote |-> EmptyStore, exc |-> ""]

\* what the "new position" form holds when it is submitted
NoKw == [date_op |-> NoDate, qta |-> None, p |-> None, fee_in |-> None, maint_ann |-> None]

\* the SQLAlchemy session of a handler between get_session() and
\* session.close(): the handler, the rows it loaded (as loaded), the same
\* objects with the attributes the handler has set since, the loaded trades
\* a price refresh has not asked a quote for yet, the quotes it got, and
\* what the form held
NoSession ==
    [op |-> "", loaded |-> EmptyStore, objs |-> EmptyStore, todo |-> {},
     quote |-> EmptyStore, kw |-> NoKw]

\* the INSERT gives the new row the next rowid (SQLite: the largest id + 1)
NextId(st) == IF DOMAIN st = {} THEN 1 ELSE (CHOOSE i \in DOMAIN st : \A j \in DOMAIN st : j <= i) + 1

\* database.py lines 20, 26, 32-34: the defaults the INSERT applies to the
\* columns the object has no value for
ColumnDefaults(row, now_utc) ==
    [row EXCEPT !.data_operazione = IF @ = NoDate THEN now_utc ELSE @,
                !.stato = IF @ = "" THEN "APERTA" ELSE @,
                !.costi_apertura = IF @ = None THEN I(0) ELSE @,
                !.costi_chiusura = IF @ = None THEN I(0) ELSE @,
                !.costo_mantenimento_annuo = IF @ = None THEN <<1, 5>> ELSE @]

\* session.add(row) and the INSERT of the commit
Insert(st, row, now_utc) ==
    [i \in DOMAIN st \cup {NextId(st)} |->
        IF i = NextId(st) THEN ColumnDefaults(row, now_utc) ELSE st[i]]

\* delete_trade(trade_id): DELETE ... WHERE id = trade_id and the commit
delete_trade(st, id) == [i \in DOMAIN st \ {id} |-> st[i]]

\* add_trade(trade_data): the object is added as it is built, no metric is
\* computed
add_trade(st, trade_data, now_utc) == Insert(st, TradingLog(trade_data), now_utc)

\* update_trade(trade_id, update_data): UPDATE ... SET the columns given
\* WHERE id = trade_id; no metric is computed, no row need match
update_trade(st, id, update_data) ==
    [i \in DOMAIN st |->
        IF i # id THEN st[i]
        ELSE [a \in DOMAIN st[i] |->
                 IF a \in DOMAIN update_data THEN update_data[a] ELSE st[i][a]]]

\* database.py lines 105-108, pd.read_sql('trading_log', engine): the rows
\* of the table as a frame, in the order of their ids
get_trades_df(st) ==
    LET ids == DOMAIN st
    IN  [k \in 1..Cardinality(ids) |->
            st[CHOOSE i \in ids : Cardinality({j \in ids : j <= i}) = k]]

\* calculations.py line 138: def get_risk_analysis(df, initial_balance),
\* called with the positional arguments args; Python raises TypeError for a
\* parameter without a default that no argument is given for
call_get_risk_analysis(args) ==
    IF Len(args) # 2
    THEN [exc |-> "TypeError", res |-> <<>>, frame |-> args[1]]
    ELSE [exc |-> "", res |-> get_risk_analysis(args[1], args[2]),
          frame |-> df_after_risk(args[1], args[2])]

\* app.py lines 148-157, the head of the dashboard tab: the exception it
\* ends in ("" = none).  Nothing is computed for an empty df; otherwise
\* perf, risk and tax_summary are computed in this order (perf and
\* tax_summary raise nothing), and an exception ends the run of the script
dashboard_exc(frame) ==
    IF frame = <<>> THEN ""
    ELSE call_get_risk_analysis(<<df_after_performance(frame)>>).exc

\* the same lines with what they compute
dashboard_tab(frame, now_utc) ==
    IF frame = <<>> THEN [exc |-> "", res |-> <<>>]
    ELSE LET perf == get_portfolio_performance_metrics(frame, now_utc)
             risk == call_get_risk_analysis(<<df_after_performance(frame)>>)
         IN  IF risk.exc # ""
             THEN [exc |-> risk.exc, res |-> [perf |-> perf]]
             ELSE [exc |-> "",
                   res |-> [perf |-> perf, risk |-> risk.res,
                            tax_summary |-> get_tax_wallet_summary(risk.frame)]]

\* lines 141-261 of a run: the exception that ends it before the forms of
\* the tabs below ("" = none)
tabs_raise(st) == dashboard_exc(get_trades_df(st))

\* df of a session: the frame that line 141 read in its last run; no frame
\* while a rerun is pending (st.rerun(), a login) or the script stops
\* before line 141
NoPage == [read |-> FALSE, frame |-> <<>>]

Page(st) == [read |-> TRUE, frame |-> get_trades_df(st)]

\* the run got past the dashboard tab (lines 148-261)
PastDashboard(page) == page.read /\ dashboard_exc(page.frame) = ""

\* lines 264-265: the run rendered the forms of the operations tab
OperationsTabRendered(page) == PastDashboard(page) /\ page.frame # <<>>

\* what the forms let the user enter
FormDates == {DayTicks(1033)}

FormQuantities == {I(4)}

FormPrices == {I(5)}

FormFeesIn == {I(2)}

FormRates == {<<1, 5>>}

\* get_current_price: a quote, or None with a reason
QuoteOutcomes == {None, I(7)}

\* what a caller of database.add_trade passes: the two columns that may
\* not be NULL and nothing else; a closed lot with its prices
ApiTrades ==
    {[data_operazione |-> NoDate, stato |-> "", quantita |-> I(4),
      prezzo_entrata |-> I(5), prezzo_medio_carico |-> None, prezzo_uscita |-> None,
      prezzo_attuale |-> None, costi_apertura |-> None, costi_chiusura |-> None,
      costo_mantenimento_annuo |-> None],
     [data_operazione |-> DayTicks(1023), stato |-> "CHIUSA", quantita |-> I(1),
      prezzo_entrata |-> I(5), prezzo_medio_carico |-> I(5), prezzo_uscita |-> I(7),
      prezzo_attuale |-> None, costi_apertura |-> I(2), costi_chiusura |-> I(1),
      costo_mantenimento_annuo |-> I(0)]}

\* what a caller of database.update_trade passes
ApiUpdates ==
    {[stato |-> "CHIUSA", prezzo_uscita |-> I(4)], [stato |-> "APERTA"]}

\* clock readings while the application runs: 2026-10-30 12:00, 2026-11-09 12:00
AppNows == {DayTicks(1033) + 1, DayTicks(1043) + 1}

InitNoMetrics ==
    /\ trade = NoTrade
    /\ arg = NoTrade
    /\ asof = 0
    /\ raised = ""
    /\ calls = 0

InitNoLedger ==
    /\ ledger = <<>>
    /\ report = NoReport
    /\ balance = I(0)

\* lines 26-28: st.session_state of a new browser session
NotLoggedIn == [authenticated |-> FALSE, role |-> ""]

\* lines 38-39: st.session_state after a login as user
LoggedIn(user) == [authenticated |-> TRUE, role |-> user]

InitNoApp ==
    /\ store = EmptyStore
    /\ df = [s \in Sessions |-> Page(EmptyStore)]
    /\ session = [s \in Sessions |-> NoSession]
    /\ ops = 0
    /\ last = NoOp
    /\ session_state = [s \in Sessions |-> LoggedIn("admin")]

Init ==
    /\ InitNoMetrics
    /\ InitNoLedger
    /\ InitNoApp
    /\ now = DayTicks(1033) + 1

\* the browser session is not inside a handler
Idle(s) == session[s].op = ""

\* lines 44-46: the script goes past the login form only when authenticated
Authenticated(s) == session_state[s].authenticated

\* st.session_state['role'] == 'admin' (lines 278, 329, 347)
IsAdmin(s) == session_state[s].role = "admin"

\* line 141, df = get_trades_df(), and the tabs below it: of a run of the
\* script with no button pressed (the rerun after st.rerun(), a reload of
\* the page), or of the run in which update_all_prices has returned (line
\* 138; no st.rerun() follows it).  The run goes on through the tabs or ends
\* at line 156
LoadData(s) ==
    /\ Authenticated(s)
    /\ \/ Idle(s) /\ df[s] # Page(store)
       \/ session[s].op = "get_trades_df"
    /\ df' = [df EXCEPT ![s] = Page(store)]
    /\ session' = [session EXCEPT ![s] = NoSession]
    /\ UNCHANGED <<now, store, ops, last, session_state, metricVars, ledgerVars>>

\* a run of the script that an exception ends before the handler of the
\* button pressed: nothing is queried and nothing committed
Raises(s, op, exc) ==
    /\ last' = [NoOp EXCEPT !.op = op, !.sess = s, !.prev = store, !.exc = exc]
    /\ ops' = ops + 1
    /\ df' = [df EXCEPT ![s] = Page(store)]
    /\ UNCHANGED <<store, session>>

\* the handler has queried and computed; its commit is still to come; page
\* is what the run has read at line 141 so far
Begins(s, sess, page) ==
    /\ session' = [session EXCEPT ![s] = sess]
    /\ df' = [df EXCEPT ![s] = page]
    /\ UNCHANGED <<store, ops, last>>

\* the run in which "Aggiungi Operazione" is pressed, up to the call of
\* get_current_price (lines 141-369).  The form is on the page of an admin
\* whose last run got past the dashboard tab (lines 346-349); the table is
\* read again, and a trade stored since the page was rendered ends the run
\* at line 156
NewTrade(s) ==
    /\ Authenticated(s)
    /\ IsAdmin(s)
    /\ PastDashboard(df[s])
    /\ Idle(s)
    /\ ops < MaxOps
    /\ IF tabs_raise(store) # ""
       THEN Raises(s, "new_trade", tabs_raise(store))
       ELSE \E date_op \in FormDates, qta \in FormQuantities, p \in FormPrices,
               fee_in \in FormFeesIn, maint_ann \in FormRates :
               Begins(s, [NoSession EXCEPT !.op = "new_trade",
                              !.kw = [date_op |-> date_op, qta |-> qta, p |-> p,
                                      fee_in |-> fee_in, maint_ann |-> maint_ann]],
                     Page(store))
    /\ UNCHANGED <<now, session_state, metricVars, ledgerVars>>

\* lines 369-382: get_current_price has returned; the trade is built, its
\* metrics computed, and it is added and committed; st.rerun() follows
NewTradeCommit(s) ==
    /\ session[s].op = "new_trade"
    /\ ops < MaxOps
    /\ NextId(store) <= MaxId
    /\ \E price \in QuoteOutcomes :
          LET kw == session[s].kw
              new_t == TradingLog([data_operazione |-> kw.date_op, stato |-> "APERTA",
                           quantita |-> kw.qta, prezzo_entrata |-> kw.p,
                           prezzo_medio_carico |-> kw.p, prezzo_uscita |-> None,
                           prezzo_attuale |-> IF Truthy(price) THEN price ELSE kw.p,
                           costi_apertura |-> kw.fee_in, costi_chiusura |-> None,
                           costo_mantenimento_annuo |-> kw.maint_ann])
          IN  /\ store' = Insert(store, calculate_metrics(new_t, now), now)
              /\ last' = [NoOp EXCEPT !.op = "new_trade", !.sess = s,
                                      !.new_id = NextId(store), !.prev = store]
    /\ session' = [session EXCEPT ![s] = NoSession]
    /\ df' = [df EXCEPT ![s] = NoPage]
    /\ ops' = ops + 1
    /\ UNCHANGED <<now, session_state, metricVars, ledgerVars>>

\* the run in which "Aggiorna Prezzi Live" is pressed (line 137, in the
\* sidebar, which every run of a session logged in renders), up to the
\* query of update_all_prices (lines 80-86); with no open trade it returns
RefreshRead(s) ==
    /\ Authenticated(s)
    /\ Idle(s)
    /\ ops < MaxOps
    /\ LET open_trades == {i \in DOMAIN store : store[i].stato = "APERTA"}
       IN  /\ open_trades # {}
           /\ Begins(s, [NoSession EXCEPT !.op = "update_all_prices",
                             !.loaded = [i \in open_trades |-> store[i]],
                             !.objs = [i \in open_trades |-> store[i]],
                             !.todo = open_trades],
                     NoPage)
    /\ UNCHANGED <<now, session_state, metricVars, ledgerVars>>

\* the trade of the loop of lines 91-98, given its quote
Requoted(t, price, now_utc) ==
    IF Truthy(price) THEN calculate_metrics([t EXCEPT !.prezzo_attuale = price], now_utc)
    ELSE t

\* lines 91-98, one turn of the loop: get_current_price has returned for the
\* next trade loaded (in the order of the query, by id), and the trade is
\* computed with the clock as it is then
RefreshQuote(s) ==
    /\ session[s].op = "update_all_prices"
    /\ session[s].todo # {}
    /\ ops < MaxOps
    /\ LET i == CHOOSE i \in session[s].todo : \A j \in session[s].todo : i <= j
       IN  \E price \in QuoteOutcomes :
              session' = [session EXCEPT
                  ![s].objs[i] = Requoted(@, price, now),
                  ![s].quote = [j \in DOMAIN @ \cup {i} |-> IF j = i THEN price ELSE @[j]],
                  ![s].todo = @ \ {i}]
    /\ UNCHANGED <<now, store, df, ops, last, session_state, metricVars, ledgerVars>>

\* variant: the commit writes the whole object as the session holds it
Flush_whole_row(current, loaded, new) == new

\* the UPDATE of an object loaded earlier: the flush writes, by id, the
\* columns whose value differs from the value loaded, and no others
Flush(current, loaded, new) ==
    [a \in DOMAIN current |-> IF new[a] # loaded[a] THEN new[a] ELSE current[a]]

\* the objects of the session that the flush has an UPDATE for
Dirty(sess) == {i \in DOMAIN sess.objs : sess.objs[i] # sess.loaded[i]}

\* an UPDATE that matches no row (the row was deleted meanwhile) raises
\* StaleDataError
Stale(st, sess) == ~(Dirty(sess) \subseteq DOMAIN st)

\* session.commit(): the flush sends the UPDATEs of the changed objects in
\* one transaction; when a statement raises, nothing is committed
commit(st, sess) ==
    IF Stale(st, sess) THEN st
    ELSE [i \in DOMAIN st |->
             IF i \in Dirty(sess) THEN Flush(st[i], sess.loaded[i], sess.objs[i])
             ELSE st[i]]

\* session.commit() of update_all_prices (line 100): StaleDataError ends
\* the run there; otherwise the session is closed, update_all_prices
\* returns (lines 101-109) and the run has line 141, its next call on the
\* database, still to come
Commit(s) ==
    /\ session[s].op = "update_all_prices"
    /\ session[s].todo = {}
    /\ ops < MaxOps
    /\ store' = commit(store, session[s])
    /\ last' = [NoOp EXCEPT !.op = session[s].op, !.sess = s, !.prev = store,
                           !.quote = session[s].quote,
                           !.exc = IF Stale(store, session[s]) THEN "StaleDataError"
                                   ELSE ""]
    /\ session' = [session EXCEPT ![s] = IF Stale(store, session[s]) THEN NoSession
                                          ELSE [NoSession EXCEPT !.op = "get_trades_df"]]
    /\ ops' = ops + 1
    /\ UNCHANGED <<now, df, session_state, metricVars, ledgerVars>>

\* database.add_trade, called from outside the script (app.py imports it
\* at line 11 and calls it nowhere)
AddTrade ==
    /\ ops < MaxOps
    /\ NextId(store) <= MaxId
    /\ \E trade_data \in ApiTrades : store' = add_trade(store, trade_data, now)
    /\ last' = [NoOp EXCEPT !.op = "add_trade", !.new_id = NextId(store),
                            !.prev = store]
    /\ ops' = ops + 1
    /\ UNCHANGED <<now, df, session, session_state, metricVars, ledgerVars>>

\* database.update_trade, called from outside the script, on a row stored
UpdateTrade ==
    /\ ops < MaxOps
    /\ \E id \in DOMAIN store, update_data \in ApiUpdates :
          /\ store' = update_trade(store, id, update_data)
          /\ last' = [NoOp EXCEPT !.op = "update_trade", !.id = id,
                                  !.prev = store]
    /\ ops' = ops + 1
    /\ UNCHANGED <<now, df, session, session_state, metricVars, ledgerVars>>

\* database.delete_trade, called from outside the script (the script calls
\* it at line 333, in the operations tab), on a row stored
DeleteTrade ==
    /\ ops < MaxOps
    /\ \E id \in DOMAIN store :
          /\ store' = delete_trade(store, id)
          /\ last' = [NoOp EXCEPT !.op = "delete_trade", !.id = id, !.prev = store]
    /\ ops' = ops + 1
    /\ UNCHANGED <<now, df, session, session_state, metricVars, ledgerVars>>

\* the clock moves on
Tick ==
    /\ \E t \in AppNows : t > now /\ now' = t
    /\ UNCHANGED <<appVars, metricVars, ledgerVars>>

Next ==
    \/ \E s \in Sessions : LoadData(s)
    \/ \E s \in Sessions : NewTrade(s)
    \/ \E s \in Sessions : NewTradeCommit(s)
    \/ \E s \in Sessions : RefreshRead(s)
    \/ \E s \in Sessions : RefreshQuote(s)
    \/ \E s \in Sessions : Commit(s)
    \/ AddTrade
    \/ UpdateTrade
    \/ DeleteTrade
    \/ Tick

Spec == Init /\ [][Next]_vars

---------------------------------------------------------------------------
(* SpecDatabase: the script run by one browser session while callers of    *)
(* database.py write to the same table.                                    *)

NextDatabase ==
    \/ LoadData(1)
    \/ NewTrade(1)
    \/ NewTradeCommit(1)
    \/ RefreshRead(1)
    \/ RefreshQuote(1)
    \/ Commit(1)
    \/ AddTrade
    \/ UpdateTrade
    \/ DeleteTrade
    \/ Tick

SpecDatabase == Init /\ [][NextDatabase]_vars

---------------------------------------------------------------------------
(* SpecRoles: the script with the login form, the logout button and the    *)
(* sidebar's balance form.  Session 1 is the admin at work; the second     *)
(* browser session starts at the login form.                               *)

\* what can be typed into the login form
Users == {"admin", "viewer"}

Passwords == {"admin123", "viewer123"}

\* what can be typed into "Saldo Iniziale / Versamenti"
BalanceInputs == {I(0), I(100)}

\* line 37: the two accounts
ValidCredentials(user, pwd) ==
    \/ user = "admin" /\ pwd = "admin123"
    \/ user = "viewer" /\ pwd = "viewer123"

\* lines 30-46: "Accedi"; with wrong credentials the form stays
Login(s) ==
    /\ ~Authenticated(s)
    /\ \E user \in Users, pwd \in Passwords :
          session_state' = IF ValidCredentials(user, pwd)
                           THEN [session_state EXCEPT ![s] = LoggedIn(user)]
                           ELSE session_state
    /\ df' = [df EXCEPT ![s] = NoPage]
    /\ UNCHANGED <<now, store, session, ops, last, metricVars, ledgerVars>>

\* lines 113-115: "Logout" clears 'authenticated' and leaves 'role'; the
\* rerun stops at the login form, so no form of the old snapshot is left
Logout(s) ==
    /\ Authenticated(s)
    /\ Idle(s)
    /\ session_state' = [session_state EXCEPT ![s].authenticated = FALSE]
    /\ df' = [df EXCEPT ![s] = NoPage]
    /\ UNCHANGED <<now, store, session, ops, last, metricVars, ledgerVars>>

\* lines 121-126 and database.py 117-125: "Aggiorna Saldo"; st.rerun()
\* ends the run before line 141
UpdateBalance(s) ==
    /\ Authenticated(s)
    /\ Idle(s)
    /\ ops < MaxOps
    /\ \E new_balance \in BalanceInputs : balance' = new_balance
    /\ last' = [NoOp EXCEPT !.op = "update_balance", !.sess = s, !.prev = store]
    /\ df' = [df EXCEPT ![s] = NoPage]
    /\ ops' = ops + 1
    /\ UNCHANGED <<now, store, session, session_state, metricVars, ledger, report>>

InitRoles ==
    /\ InitNoMetrics
    /\ ledger = <<>>
    /\ report = NoReport
    /\ balance = I(0)
    /\ store = EmptyStore
    /\ df = [s \in Sessions |-> IF s = 1 THEN Page(EmptyStore) ELSE NoPage]
    /\ session = [s \in Sessions |-> NoSession]
    /\ ops = 0
    /\ last = NoOp
    /\ session_state = [s \in Sessions |-> IF s = 1 THEN LoggedIn("admin") ELSE NotLoggedIn]
    /\ now = DayTicks(1033) + 1

NextRoles ==
    \/ \E s \in Sessions : LoadData(s)
    \/ \E s \in Sessions : NewTrade(s)
    \/ \E s \in Sessions : NewTradeCommit(s)
    \/ \E s \in Sessions : RefreshRead(s)
    \/ \E s \in Sessions : RefreshQuote(s)
    \/ \E s \in Sessions : Commit(s)
    \/ \E s \in Sessions : Login(s)
    \/ \E s \in Sessions : Logout(s)
    \/ \E s \in Sessions : UpdateBalance(s)
    \/ Tick

SpecRoles == InitRoles /\ [][NextRoles]_vars

---------------------------------------------------------------------------
(* SpecMetrics: calculate_metrics on one trade drawn from bounded sets,    *)
(* computed, and computed again as the clock moves on.                     *)

\* how many times the engine is run on the trade
MaxCalls == 2

MetricQuantities == {I(-5), I(0), I(5)}

MetricEntryPrices == {I(0), I(73)}

\* another average cost than the entry price
MetricAvgPrices == {I(80)}

MetricQuotes == {None, I(0), I(60), I(90)}

MetricFees == {I(0), I(2)}

\* 0 and the column default 0.20 (percent a year)
MetricRates == {I(0), <<1, 5>>}

\* opening dates: 2026-10-20 and 2026-10-30 (midnights)
MetricDates == {DayTicks(1023), DayTicks(1033)}

\* clock readings: 2026-10-30 00:00 and 12:00, 2026-10-31 12:00, 2026-11-09 00:00
MetricNows == {DayTicks(1033), DayTicks(1033) + 1, DayTicks(1034) + 1, DayTicks(1043)}

\* The forms store one number in both price columns (app.py 292, 373), so
\* the average cost is the entry price, or unset (a row older than the
\* column), or another non-zero price (a row written through add_trade).
\* An open trade has no exit price and a closed trade made by a partial
\* close no reference price (app.py 309-315).  A trade whose stato is
\* neither word ("", an object whose stato was not set) is computed as a
\* closed one (calculations.py 35, 47).
MetricTradesAt(pe) ==
    {TradingLog([data_operazione |-> d, stato |-> s, quantita |-> q,
                 prezzo_entrata |-> pe, prezzo_medio_carico |-> pm,
                 prezzo_uscita |-> IF s # "APERTA" THEN px ELSE None,
                 prezzo_attuale |-> IF s = "APERTA" THEN px ELSE None,
                 costi_apertura |-> fa,
                 costi_chiusura |-> IF s # "APERTA" THEN fc ELSE I(0),
                 costo_mantenimento_annuo |-> r]) :
        d \in MetricDates, s \in {"APERTA", "CHIUSA", ""}, q \in MetricQuantities,
        pm \in {None, pe} \cup MetricAvgPrices, px \in MetricQuotes,
        fa \in MetricFees, fc \in MetricFees, r \in MetricRates}

\* 5 bought at 50 and sold at 40, with 2 paid at each end and the default
\* rate
ScenarioTrades ==
    {TradingLog([data_operazione |-> d, stato |-> "CHIUSA", quantita |-> I(5),
                 prezzo_entrata |-> I(50), prezzo_medio_carico |-> pm,
                 prezzo_uscita |-> I(40), prezzo_attuale |-> None,
                 costi_apertura |-> I(2), costi_chiusura |-> I(2),
                 costo_mantenimento_annuo |-> <<1, 5>>]) :
        d \in MetricDates, pm \in {None, I(50)}}

\* closed at the price paid, with nothing paid to open or to hold
BreakEvenTrades ==
    {TradingLog([data_operazione |-> d, stato |-> "CHIUSA", quantita |-> q,
                 prezzo_entrata |-> I(73), prezzo_medio_carico |-> pm,
                 prezzo_uscita |-> IF IsNone(pm) THEN I(73) ELSE pm,
                 prezzo_attuale |-> None,
                 costi_apertura |-> I(0), costi_chiusura |-> fc,
                 costo_mantenimento_annuo |-> I(0)]) :
        d \in MetricDates, q \in MetricQuantities,
        pm \in {None, I(73)} \cup MetricAvgPrices, fc \in MetricFees}

MetricTrades ==
    UNION {MetricTradesAt(pe) : pe \in MetricEntryPrices}
        \cup ScenarioTrades \cup BreakEvenTrades

InitMetrics ==
    /\ InitNoApp
    /\ InitNoLedger
    /\ now \in MetricNows
    /\ trade \in MetricTrades
    /\ arg = trade
    /\ asof = now
    /\ raised = ""
    /\ calls = 0

\* calculate_metrics(trade)
Compute ==
    /\ calls < MaxCalls
    /\ raised = ""
    /\ arg' = trade
    /\ asof' = now
    /\ LET run == calculate_metrics_run(trade, now)
       IN  trade' = run.trade /\ raised' = run.exc
    /\ calls' = calls + 1
    /\ UNCHANGED <<now, appVars, ledgerVars>>

\* time passes between two calls
Advance ==
    /\ calls > 0
    /\ \E t \in MetricNows : t > now /\ now' = t
    /\ UNCHANGED <<appVars, metricVars, ledgerVars>>

NextMetrics == Compute \/ Advance

SpecMetrics == InitMetrics /\ [][NextMetrics]_vars

---------------------------------------------------------------------------
(* SpecLedger: the aggregators on ledgers drawn from bounded sets.         *)

\* the longest ledger
MaxLedger == 2

\* opening dates: 2024-06-01, 2025-12-20, 2026-01-05, 2026-10-20, 2026-11-05
LedgerDates == {DayTicks(152), DayTicks(719), DayTicks(735), DayTicks(1023), DayTicks(1039)}

\* clock readings: 2026-01-10 12:00, 2026-10-30 12:00
LedgerNows == {DayTicks(740) + 1, DayTicks(1033) + 1}

\* a lot of 4 bought at 5, valued or sold at 4 or at 7, as the engine left
\* it on the day it was entered
Lot(d, s, px) ==
    calculate_metrics(
        ColumnDefaults(TradingLog([data_operazione |-> d, stato |-> s, quantita |-> I(4),
            prezzo_entrata |-> I(5), prezzo_medio_carico |-> I(5),
            prezzo_uscita |-> IF s = "CHIUSA" THEN px ELSE None,
            prezzo_attuale |-> IF s = "APERTA" THEN px ELSE None,
            costi_apertura |-> I(2),
            costi_chiusura |-> IF s = "CHIUSA" THEN I(1) ELSE None,
            costo_mantenimento_annuo |-> <<1, 5>>]), d + 1),
        d + 1)

\* a position entered with quantity 0 and no fee (the form's defaults allow
\* both): nothing invested
EmptyLot(d) ==
    calculate_metrics(
        ColumnDefaults(TradingLog([data_operazione |-> d, stato |-> "APERTA", quantita |-> I(0),
            prezzo_entrata |-> I(5), prezzo_medio_carico |-> I(5),
            prezzo_uscita |-> None, prezzo_attuale |-> I(5),
            costi_apertura |-> I(0), costi_chiusura |-> None,
            costo_mantenimento_annuo |-> <<1, 5>>]), d + 1),
        d + 1)

LedgerLots ==
    {Lot(d, s, px) : d \in LedgerDates, s \in {"APERTA", "CHIUSA"}, px \in {I(4), I(7)}}
        \cup {EmptyLot(DayTicks(1023))}

Ledgers == UNION {[1..n -> LedgerLots] : n \in 0..MaxLedger}

InitLedger ==
    /\ InitNoApp
    /\ InitNoMetrics
    /\ now \in LedgerNows
    /\ ledger \in Ledgers
    /\ report = NoReport
    /\ balance = I(0)

\* tax_summary = get_tax_wallet_summary(df)
TaxWallet ==
    /\ report' = [op |-> "tax_wallet", exc |-> "", res |-> get_tax_wallet_summary(ledger)]
    /\ ledger' = df_after_tax_wallet(ledger)
    /\ UNCHANGED <<now, balance, appVars, metricVars>>

\* perf = get_portfolio_performance_metrics(df)
Performance ==
    /\ report' = [op |-> "performance", exc |-> "", res |-> get_portfolio_performance_metrics(ledger, now)]
    /\ ledger' = df_after_performance(ledger)
    /\ UNCHANGED <<now, balance, appVars, metricVars>>

NextLedger == TaxWallet \/ Performance

SpecLedger == InitLedger /\ [][NextLedger]_vars

---------------------------------------------------------------------------
(* SpecRisk: get_risk_analysis, and the other aggregators beside it, on    *)
(* ledgers of round figures and several initial balances.                  *)

\* opening dates: 2026-10-20, 2026-10-30
RiskDates == {DayTicks(1023), DayTicks(1033)}

\* saldo_iniziale: the 0.0 of init_db, a balance a loss of 4 uses up, a
\* usual one, and one below zero (the sidebar's number_input has no minimum)
Balances == {I(0), I(4), I(100), I(-10)}

\* a lot of 4 bought at 5 with no fee and no holding cost: open at 5 (net
\* profit 0), sold at 4 (net profit -4, return -20 %), sold at 7 (net profit
\* 5.92, return 29.6 %)
RiskLot(d, s, px) ==
    calculate_metrics(
        ColumnDefaults(TradingLog([data_operazione |-> d, stato |-> s, quantita |-> I(4),
            prezzo_entrata |-> I(5), prezzo_medio_carico |-> I(5),
            prezzo_uscita |-> IF s = "CHIUSA" THEN px ELSE None,
            prezzo_attuale |-> IF s = "APERTA" THEN px ELSE None,
            costi_apertura |-> I(0),
            costi_chiusura |-> IF s = "CHIUSA" THEN I(0) ELSE None,
            costo_mantenimento_annuo |-> I(0)]), d + 1),
        d + 1)

RiskLots ==
    {RiskLot(d, "APERTA", I(5)) : d \in RiskDates}
        \cup {RiskLot(d, "CHIUSA", px) : d \in RiskDates, px \in {I(4), I(7)}}

RiskLedgers == UNION {[1..n -> RiskLots] : n \in 0..MaxLedger}

InitRisk ==
    /\ InitNoApp
    /\ InitNoMetrics
    /\ now = DayTicks(1033) + 1
    /\ ledger \in RiskLedgers
    /\ report = NoReport
    /\ balance \in Balances

\* risk = get_risk_analysis(df, initial_balance)
Risk ==
    /\ report' = [op |-> "risk", exc |-> "", res |-> get_risk_analysis(ledger, balance)]
    /\ ledger' = df_after_risk(ledger, balance)
    /\ UNCHANGED <<now, balance, appVars, metricVars>>

\* the dashboard tab on the frame handed in; line 106 has converted the
\* frame's dates by the time the tab returns or raises
Dashboard ==
    /\ LET tab == dashboard_tab(ledger, now)
       IN  report' = [op |-> "dashboard", exc |-> tab.exc, res |-> tab.res]
    /\ ledger' = df_after_performance(ledger)
    /\ UNCHANGED <<now, balance, appVars, metricVars>>

NextRisk == Risk \/ TaxWallet \/ Performance \/ Dashboard

SpecRisk == InitRisk /\ [][NextRisk]_vars

---------------------------------------------------------------------------
(* Properties of calculate_metrics (checked under SpecMetrics).            *)

\* the cost basis as the data model words it: the average cost when the
\* column is set, the entry price otherwise
CostBasis(t) ==
    IF IsNone(t.prezzo_medio_carico) THEN t.prezzo_entrata ELSE t.prezzo_medio_carico

\* a reference price is missing when no quote was ever stored: the column
\* is NULL, or holds the 0 that the insert form stores for a trade with no
\* quote and no price (app.py 374); a real quote is never 0 (app.py 93)
Missing(x) == IsNone(x) \/ x = I(0)

\* one day of holding cost on the gross amount
OneDayAccrual(t) ==
    RDiv(RMul(RMul(t.quantita, CostBasis(t)), RDiv(t.costo_mantenimento_annuo, I(100))),
         I(365))

\* whole days from the opening date to the clock reading, at least one
DaysCounted(t, at) ==
    IF at - t.data_operazione >= DayTicks(2) THEN (at - t.data_operazione) \div 2 ELSE 1

\* C2 (as claimed): a CLOSED trade is held from its opening date to its
\* opening date, so calculate_metrics charges it exactly one day of holding
\* cost whenever it is run.
C2_ClosedHeldOneDay ==
    (calls > 0 /\ trade.stato = "CHIUSA") =>
        trade.investito_netto =
            RAdd(RAdd(RMul(trade.quantita, CostBasis(arg)), trade.costi_apertura),
                 OneDayAccrual(arg))

\* C3: after calculate_metrics the tax is 26% of a positive gross P/L and 0
\* otherwise, is never negative, and net profit = gross P/L - tax.
C3_TaxOnGainsOnly ==
    calls > 0 =>
        /\ RPos(trade.plus_minus) => trade.tassazione = RMul(trade.plus_minus, <<13, 50>>)
        /\ ~RPos(trade.plus_minus) => trade.tassazione = I(0)
        /\ ~RNegative(trade.tassazione)
        /\ trade.net_profit = RSub(trade.plus_minus, trade.tassazione)

C3_Witness ==
    /\ calls > 0
    /\ RPos(trade.plus_minus)
    /\ RPos(trade.tassazione)
    /\ RLt(trade.net_profit, trade.plus_minus)

\* C4: after calculate_metrics net invested = quantity * cost basis +
\* opening cost + holding cost, the cost basis being the average cost when
\* set and the entry price otherwise, and the holding cost being gross
\* invested * (annual rate / 100) / 365 * the days counted.
C4_NetInvested ==
    calls > 0 =>
        /\ trade.investito_lordo = RMul(trade.quantita, CostBasis(arg))
        /\ trade.investito_netto =
               RAdd(RAdd(trade.investito_lordo, trade.costi_apertura),
                    RMul(OneDayAccrual(arg), I(DaysCounted(arg, asof))))

C4_Witness ==
    /\ calls > 0
    /\ IsNone(arg.prezzo_medio_carico)
    /\ RPos(arg.quantita) /\ RPos(arg.prezzo_entrata)
    /\ RPos(arg.costi_apertura) /\ RPos(arg.costo_mantenimento_annuo)
    /\ DaysCounted(arg, asof) > 1
    /\ RLt(RAdd(trade.investito_lordo, trade.costi_apertura), trade.investito_netto)

\* C5: after calculate_metrics the current value of an OPEN trade is
\* quantity * reference price, the cost basis standing in for a missing
\* reference price; that of a CLOSED trade is quantity * exit price -
\* closing cost, the cost basis standing in for an exit price that was
\* never set, and an exit price that was set (0 included) used as it is.
C5_CurrentValue ==
    calls > 0 =>
        IF arg.stato = "APERTA"
        THEN trade.valore_attuale =
                 RMul(arg.quantita,
                      IF Missing(arg.prezzo_attuale) THEN CostBasis(arg)
                      ELSE arg.prezzo_attuale)
        ELSE trade.valore_attuale =
                 RSub(RMul(arg.quantita,
                           IF IsNone(arg.prezzo_uscita) THEN CostBasis(arg)
                           ELSE arg.prezzo_uscita),
                      arg.costi_chiusura)

C5_Witness ==
    /\ calls > 0
    /\ arg.stato = "CHIUSA"
    /\ arg.prezzo_uscita = I(0)
    /\ RPos(arg.quantita) /\ RPos(CostBasis(arg)) /\ RPos(arg.costi_chiusura)
    /\ trade.valore_attuale = RNeg(arg.costi_chiusura)

\* C6: calculate_metrics raises nothing; return % = net profit / net
\* invested * 100 when net invested > 0, and 0 when net invested <= 0.
C6_ReturnNeverFails ==
    calls > 0 =>
        /\ raised = ""
        /\ RPos(trade.investito_netto) =>
               RMul(trade.rendimento_percentuale, trade.investito_netto)
                   = RMul(trade.net_profit, I(100))
        /\ ~RPos(trade.investito_netto) => trade.rendimento_percentuale = I(0)

C6_Witness ==
    /\ calls > 0
    /\ raised = ""
    /\ trade.investito_netto = I(0)
    /\ trade.net_profit # I(0)
    /\ trade.rendimento_percentuale = I(0)

---------------------------------------------------------------------------
(* Properties of the handlers (C7 checked under SpecDatabase).             *)

\* No run of the script renders the forms of the operations tab: "Salva
\* Dati Base", "Conferma Vendita" and "CONFERMA ELIMINAZIONE" are never on
\* the page of a session, so lines 283-335 are never executed.
OperationsTabNeverRendered == \A s \in Sessions : ~OperationsTabRendered(df[s])

\* the insert form is on the page of a session only over an empty table
InsertFormOnlyOverNoTrade ==
    \A s \in Sessions : PastDashboard(df[s]) => df[s].frame = <<>>

\* the handlers of the script, as against the callers of database.py
ByTheApplication ==
    last'.op \in {"new_trade", "edit_main", "close_trade", "delete_trade",
                  "update_all_prices"}

\* C7: no operation of the application stores as OPEN a trade that was
\* stored as CLOSED.
C7_ClosedIsTerminal ==
    [][ByTheApplication =>
           \A i \in DOMAIN store \cap DOMAIN store' :
               store[i].stato = "CHIUSA" => store'[i].stato = "CHIUSA"]_vars

\* a price refresh that loaded a trade while it was open has committed its
\* figures after the trade was closed, and the trade is still closed
C7_Witness ==
    /\ last.op = "update_all_prices"
    /\ \E i \in DOMAIN store \cap DOMAIN last.prev :
          /\ last.prev[i].stato = "CHIUSA"
          /\ store[i] # last.prev[i]
          /\ store[i].stato = "CHIUSA"

---------------------------------------------------------------------------
(* Properties of the aggregators (checked under SpecLedger).               *)

Rows == 1..Len(ledger)

ClosedRows == {i \in Rows : ledger[i].stato = "CHIUSA"}

RECURSIVE Total(_, _)
\* the sum of f over the rows in S
Total(S, f) ==
    IF S = {} THEN I(0)
    ELSE LET i == CHOOSE j \in S : TRUE IN RAdd(f[i], Total(S \ {i}, f))

GrossPL == [i \in Rows |-> ledger[i].plus_minus]

AbsGrossPL == [i \in Rows |-> IF RNegative(GrossPL[i]) THEN RNeg(GrossPL[i]) ELSE GrossPL[i]]

Gains == Total({i \in ClosedRows : RPos(GrossPL[i])}, GrossPL)

Losses == Total({i \in ClosedRows : RNegative(GrossPL[i])}, AbsGrossPL)

\* C8: the tax wallet is made of the CLOSED trades only: realized P/L is
\* the sum of their gross P/L, gains the sum of the positive ones, losses
\* the sum of the absolute values of the negative ones, fiscal balance =
\* gains - losses, taxes paid the sum of their tax; with no CLOSED trade
\* all five are 0.
C8_TaxWallet ==
    report.op = "tax_wallet" =>
        /\ report.res.realized_pl = Total(ClosedRows, GrossPL)
        /\ report.res.plusvalenze = Gains
        /\ report.res.minusvalenze = Losses
        /\ report.res.bilancio_fiscale = RSub(Gains, Losses)
        /\ report.res.taxes_paid = Total(ClosedRows, [i \in Rows |-> ledger[i].tassazione])
        /\ ClosedRows = {} =>
               report.res = [realized_pl |-> I(0), taxes_paid |-> I(0), plusvalenze |-> I(0),
                             minusvalenze |-> I(0), bilancio_fiscale |-> I(0)]

\* a wallet over an open trade with a result of its own and a closed loss
C8_Witness ==
    /\ report.op = "tax_wallet"
    /\ \E i \in Rows : ledger[i].stato = "APERTA" /\ RPos(ledger[i].plus_minus)
    /\ \E i \in ClosedRows : RNegative(ledger[i].plus_minus)
    /\ RPos(report.res.minusvalenze)
    /\ report.res.plusvalenze = I(0)

\* sum(net profit) / sum(net invested) * 100 over the rows in S, 0 when
\* nothing is invested
Return(S) ==
    LET invested == Total(S, [i \in Rows |-> ledger[i].investito_netto])
        profit == Total(S, [i \in Rows |-> ledger[i].net_profit])
    IN  IF RPos(invested) THEN RDiv(RMul(profit, I(100)), invested) ELSE I(0)

\* the rows opened in the n days ending at the clock reading
OpenedInLast(n) ==
    {i \in Rows : now - DayTicks(n) <= ledger[i].data_operazione
                  /\ ledger[i].data_operazione <= now}

\* the rows opened n days before the clock reading or later
OpenedSince(n) == {i \in Rows : now - DayTicks(n) <= ledger[i].data_operazione}

OpenedThisYearOrLater == {i \in Rows : year_start(now) <= ledger[i].data_operazione}

\* C9 (as claimed): a trade counts in the monthly return iff it was opened
\* in the 30 days ending at now, in LTM iff in the 365 days ending at now,
\* in YTD iff on or after Jan 1 of now's year, and always in inception;
\* each return is sum(net profit) / sum(net invested) * 100 over the
\* trades that count, whatever their status.
C9_WindowsByOpeningDate ==
    (report.op = "performance" /\ ledger # <<>>) =>
        /\ report.res.Monthly = Return(OpenedInLast(30))
        /\ report.res.LTM = Return(OpenedInLast(365))
        /\ report.res.YTD = Return(OpenedThisYearOrLater)
        /\ report.res.Inception = Return(Rows)

\* The same with the monthly and LTM windows open at the far end.
PerformanceWindowsFromStart ==
    (report.op = "performance" /\ ledger # <<>>) =>
        /\ report.res.Monthly = Return(OpenedSince(30))
        /\ report.res.LTM = Return(OpenedSince(365))
        /\ report.res.YTD = Return(OpenedThisYearOrLater)
        /\ report.res.Inception = Return(Rows)

Percentages == {"Monthly", "YTD", "LTM", "Inception"}

Window(k) ==
    CASE k = "Monthly" -> OpenedInLast(30)
      [] k = "LTM" -> OpenedInLast(365)
      [] k = "YTD" -> OpenedThisYearOrLater
      [] k = "Inception" -> Rows

\* C10 (as claimed): for every ledger, the empty one included, performance
\* returns the four percentages, and a window with no trade in range, or
\* with nothing invested in it, has the value 0.
C10_FourPercentages ==
    report.op = "performance" =>
        /\ DOMAIN report.res = Percentages
        /\ \A k \in Percentages :
              (Window(k) = {}
                  \/ ~RPos(Total(Window(k), [i \in Rows |-> ledger[i].investito_netto])))
              => report.res[k] = I(0)

\* The same for the ledgers that hold a trade, the windows being open at
\* the far end; for the empty ledger the result has no entry.
PerformanceDefined ==
    report.op = "performance" =>
        IF ledger = <<>> THEN DOMAIN report.res = {}
        ELSE /\ DOMAIN report.res = Percentages
             /\ \A k \in Percentages :
                   LET W == IF k = "Monthly" THEN OpenedSince(30)
                            ELSE IF k = "LTM" THEN OpenedSince(365) ELSE Window(k)
                   IN  (W = {} \/ ~RPos(Total(W, [i \in Rows |-> ledger[i].investito_netto])))
                           => report.res[k] = I(0)

---------------------------------------------------------------------------
(* Properties of get_risk_analysis (checked under SpecRisk).               *)

\* C11: on a ledger of fewer than 2 trades, whatever the initial balance,
\* risk returns a standard deviation of 0 and ends in no error.
C11_StdDevOfFewTrades ==
    (report.op = "risk" /\ Len(ledger) < 2) =>
        /\ report.exc = ""
        /\ report.res.StdDev = Zero

\* risk on one trade with a return of its own
C11_Witness ==
    /\ report.op = "risk"
    /\ Len(ledger) = 1
    /\ ledger[1].rendimento_percentuale # I(0)
    /\ report.res.StdDev = Zero
    /\ report.res.Sharpe = Zero

\* the drawdown column of the equity curve returned, in percent
DrawdownPercent ==
    [i \in 1..Len(report.res.EquityCurve) |-> Times100(report.res.EquityCurve[i].drawdown)]

\* C12 (as claimed): for every non-empty ledger and every initial balance,
\* those that make the equity zero or negative included, max_drawdown <= 0
\* and max_drawdown <= drawdown[i] at every point i of the equity curve.
C12_MaxDrawdownIsLeast ==
    (report.op = "risk" /\ ledger # <<>>) =>
        /\ FloatLe(report.res.MaxDrawdown, I(0))
        /\ \A i \in 1..Len(DrawdownPercent) :
              FloatLe(report.res.MaxDrawdown, DrawdownPercent[i])

\* The same for the curves whose equity starts above zero.
MaxDrawdownIsLeastAboveZero ==
    (report.op = "risk" /\ ledger # <<>> /\ RPos(report.res.EquityCurve[1].equity)) =>
        /\ FloatLe(report.res.MaxDrawdown, I(0))
        /\ \A i \in 1..Len(DrawdownPercent) :
              FloatLe(report.res.MaxDrawdown, DrawdownPercent[i])

---------------------------------------------------------------------------
(* Further properties of calculate_metrics (checked under SpecMetrics).    *)

\* the trade of the end-to-end scenario: CLOSED, 5 at a cost basis of 50,
\* sold at 40, opening and closing cost 2, rate 0.20
IsScenario(t) ==
    /\ t.stato = "CHIUSA"
    /\ t.quantita = I(5) /\ CostBasis(t) = I(50) /\ t.prezzo_uscita = I(40)
    /\ t.costi_apertura = I(2) /\ t.costi_chiusura = I(2)
    /\ t.costo_mantenimento_annuo = <<1, 5>>

\* x is y to two decimals
About(x, y) == RLe(RSub(y, <<1, 200>>), x) /\ RLe(x, RAdd(y, <<1, 200>>))

\* C13 (as claimed): the scenario gives current value 198, gross invested
\* 250, net invested about 250.03, gross P/L about -52.03, tax 0 and net
\* profit about -52.03.
C13_ScenarioAsStated ==
    (calls > 0 /\ IsScenario(arg)) =>
        /\ trade.valore_attuale = I(198)
        /\ trade.investito_lordo = I(250)
        /\ About(trade.investito_netto, <<25003, 100>>)
        /\ About(trade.plus_minus, <<-5203, 100>>)
        /\ trade.tassazione = I(0)
        /\ About(trade.net_profit, <<-5203, 100>>)

\* calculate_metrics is run less than two days after the opening date of
\* the trade: one day is held, by the floor of line 26
FirstDay(t, at) == at - t.data_operazione < DayTicks(2)

\* C13 (amended): the scenario, computed less than two days after the
\* opening date, gives current value 198, gross invested 250, net invested
\* 250 + 2 + 250 * 0.002 / 365 = 252 + 1/730 (about 252.00), gross P/L
\* 198 - 252 - 1/730 (about -54.00), tax 0 and net profit equal to the
\* gross P/L.
C13_Scenario ==
    (calls > 0 /\ IsScenario(arg) /\ FirstDay(arg, asof)) =>
        /\ trade.valore_attuale = I(198)
        /\ trade.investito_lordo = I(250)
        /\ trade.investito_netto = <<183961, 730>>
        /\ trade.plus_minus = <<-39421, 730>>
        /\ trade.tassazione = I(0)
        /\ trade.net_profit = <<-39421, 730>>

\* the scenario computed twelve hours after the trade was opened
C13_Witness ==
    /\ calls > 0
    /\ IsScenario(arg)
    /\ asof - arg.data_operazione = 1
    /\ About(trade.investito_netto, <<25200, 100>>)
    /\ About(trade.plus_minus, <<-5400, 100>>)
    /\ trade.net_profit = trade.plus_minus

\* a CLOSED trade with no opening cost and no holding cost, sold at its
\* cost basis
IsBreakEven(t) ==
    /\ t.stato = "CHIUSA"
    /\ t.costi_apertura = I(0)
    /\ t.costo_mantenimento_annuo = I(0)
    /\ t.prezzo_uscita = CostBasis(t)

\* C14 (as claimed): every such trade, whatever its other fields, has gross
\* P/L 0, and hence tax 0 and net profit 0.
C14_BreakEvenIsZero ==
    (calls > 0 /\ IsBreakEven(arg)) =>
        /\ trade.plus_minus = I(0)
        /\ trade.tassazione = I(0)
        /\ trade.net_profit = I(0)

\* C14 (amended): every such trade has gross P/L = -closing cost; with a
\* closing cost >= 0 its tax is 0 and its net profit equals the gross P/L,
\* so all three are 0 when the closing cost is 0 as well.
C14_BreakEvenLosesClosingCost ==
    (calls > 0 /\ IsBreakEven(arg)) =>
        /\ trade.plus_minus = RNeg(arg.costi_chiusura)
        /\ ~RNegative(arg.costi_chiusura) =>
               trade.tassazione = I(0) /\ trade.net_profit = trade.plus_minus
        /\ arg.costi_chiusura = I(0) =>
               trade.plus_minus = I(0) /\ trade.net_profit = I(0)

\* 5 sold at an average cost of 80 that is not the entry price, closing
\* cost 2
C14_Witness ==
    /\ calls > 0
    /\ IsBreakEven(arg)
    /\ arg.quantita = I(5)
    /\ arg.prezzo_medio_carico = I(80) /\ arg.prezzo_entrata = I(73)
    /\ arg.costi_chiusura = I(2)
    /\ trade.plus_minus = I(-2)
    /\ trade.valore_attuale = I(398)

---------------------------------------------------------------------------
(* Properties of the price refresh among other writers (checked under     *)
(* Spec).                                                                  *)

\* the columns a user enters, as against the reference price and the
\* derived figures
Static(t) ==
    <<t.data_operazione, t.stato, t.quantita, t.prezzo_entrata, t.prezzo_medio_carico,
      t.prezzo_uscita, t.costi_apertura, t.costi_chiusura, t.costo_mantenimento_annuo>>

\* C17 (as claimed): a price refresh that has committed changed no field of
\* a trade that was CLOSED in the table when it committed (one closed by
\* another session after the refresh had read it included), no static field
\* of any trade, and nothing of a trade whose quote was unavailable.
C17_RefreshFrame ==
    last.op = "update_all_prices" =>
        /\ DOMAIN store = DOMAIN last.prev
        /\ \A i \in DOMAIN store :
              /\ last.prev[i].stato = "CHIUSA" => store[i] = last.prev[i]
              /\ Static(store[i]) = Static(last.prev[i])
              /\ (i \in DOMAIN last.quote /\ ~Truthy(last.quote[i])) =>
                     store[i] = last.prev[i]

\* The same without the trades closed since the refresh read them.
RefreshFrameOfStaticFields ==
    last.op = "update_all_prices" =>
        /\ DOMAIN store = DOMAIN last.prev
        /\ \A i \in DOMAIN store :
              /\ i \notin DOMAIN last.quote => store[i] = last.prev[i]
              /\ Static(store[i]) = Static(last.prev[i])
              /\ (i \in DOMAIN last.quote /\ ~Truthy(last.quote[i])) =>
                     store[i] = last.prev[i]

---------------------------------------------------------------------------
(* Properties of the aggregators as functions of the ledger (checked under *)
(* SpecRisk).                                                              *)

\* the same trades in every insertion order
Reordered(frame) ==
    {[i \in 1..Len(frame) |-> frame[p[i]]] : p \in Permutations(1..Len(frame))}

\* what the claim compares of a risk report: the two drawdowns and the
\* equity values
RiskFigures(res) ==
    [MaxDrawdown |-> res.MaxDrawdown, CurrentDrawdown |-> res.CurrentDrawdown,
     equity |-> IF "EquityCurve" \in DOMAIN res
                THEN [i \in 1..Len(res.EquityCurve) |-> res.EquityCurve[i].equity]
                ELSE <<>>]

SameReport(op, frame) ==
    CASE op = "risk" ->
            RiskFigures(get_risk_analysis(frame, balance)) = RiskFigures(report.res)
      [] op = "tax_wallet" -> get_tax_wallet_summary(frame) = report.res
      [] op = "performance" -> get_portfolio_performance_metrics(frame, now) = report.res
      [] OTHER -> TRUE

SomeDateTwice(frame) ==
    \E i, j \in 1..Len(frame) :
        i # j /\ frame[i].data_operazione = frame[j].data_operazione

\* C18 (as claimed): every permutation of the ledger gives the same risk
\* figures (max drawdown, current drawdown, equity values) and the same
\* tax wallet and performance results, trades sharing an opening date
\* included.
C18_OrderIrrelevant ==
    report.op # "" => \A f \in Reordered(ledger) : SameReport(report.op, f)

\* The order is irrelevant for the tax wallet and the performance figures,
\* and for risk when no two trades share an opening date.
OrderIrrelevantButForTies ==
    (report.op # "" /\ (report.op = "risk" => ~SomeDateTwice(ledger))) =>
        \A f \in Reordered(ledger) : SameReport(report.op, f)

\* what the aggregator just called returns when called again on the
\* snapshot as it is now
SecondCallReturnsTheSame ==
    CASE report.op = "risk" -> get_risk_analysis(ledger, balance) = report.res
      [] report.op = "tax_wallet" -> get_tax_wallet_summary(ledger) = report.res
      [] report.op = "performance" ->
            get_portfolio_performance_metrics(ledger, now) = report.res
      [] OTHER -> TRUE

C20_DashboardRenders ==
    (report.op = "dashboard" /\ ledger # <<>>) =>
        /\ report.exc = ""
        /\ {"perf", "risk", "tax_summary"} \subseteq DOMAIN report.res

\* The dashboard of an empty ledger calls no aggregator and reaches no
\* error.
EmptyDashboardRenders ==
    (report.op = "dashboard" /\ ledger = <<>>) => report.exc = ""

---------------------------------------------------------------------------
(* Properties of the roles (checked under SpecRoles).                      *)

\* the session whose handler has just ended is logged in as admin
CommittedByAdmin ==
    ops' # ops => (session_state[last'.sess].authenticated
                      /\ session_state[last'.sess].role = "admin")

\* C21 (as claimed): a handler run by a session whose role is viewer, or
\* that is not authenticated, changes no stored trade and not the initial
\* balance.
C21_ViewerChangesNothing ==
    [][CommittedByAdmin \/ (store' = store /\ balance' = balance)]_vars

\* What the role guards do keep from a viewer: creating, editing, closing
\* and deleting; and a session that is not authenticated commits nothing.
ViewerOnlyUsesSidebar ==
    [][/\ ops' # ops => session_state[last'.sess].authenticated
       /\ CommittedByAdmin \/ last'.op \in {"update_all_prices", "update_balance"}]_vars

====
